---- MODULE Spec2Model ----
(***************************************************************************)
(* karacopy.py: selection of lyrics, media and cover-art files from a      *)
(* media library (artist/album [year]/...) and their copy into a           *)
(* destination tree.                                                       *)
(*                                                                         *)
(* Paths and names are Python strings, modelled as sequences of            *)
(* one-character strings, so that str.strip, str.split, os.path.splitext,  *)
(* os.path.join and re.findall are computed character by character.        *)
(* The platform is POSIX: os.path.sep is "/".                              *)
(***************************************************************************)
EXTENDS Integers, Sequences, FiniteSets, TLC

\* ------------------------------------------------------------------------
\* Python string primitives
\* ------------------------------------------------------------------------

sep == "/"

Last(s) == s[Len(s)]

Front(s) == SubSeq(s, 1, Len(s) - 1)

Range(s) == {s[i] : i \in 1..Len(s)}

\* s.startswith(p)
startswith(s, p) == Len(p) <= Len(s) /\ SubSeq(s, 1, Len(p)) = p

RECURSIVE lstrip(_, _)
lstrip(s, chars) ==
    IF s # <<>> /\ Head(s) \in chars THEN lstrip(Tail(s), chars) ELSE s

RECURSIVE rstrip(_, _)
rstrip(s, chars) ==
    IF s # <<>> /\ Last(s) \in chars THEN rstrip(Front(s), chars) ELSE s

\* s.strip(chars): removes from both ends every character that is a member
\* of the character set chars
strip(s, chars) == rstrip(lstrip(s, chars), chars)

\* s.find(c) and s.rfind(c), 1-based, 0 when absent
find(s, c) ==
    IF c \in Range(s)
    THEN CHOOSE i \in 1..Len(s) : s[i] = c /\ \A j \in 1..(i - 1) : s[j] # c
    ELSE 0

rfind(s, c) ==
    IF c \in Range(s)
    THEN CHOOSE i \in 1..Len(s) : s[i] = c /\ \A j \in (i + 1)..Len(s) : s[j] # c
    ELSE 0

\* s.split(c): empty fields are kept
RECURSIVE split(_, _)
split(s, c) ==
    LET i == find(s, c)
    IN  IF i = 0 THEN <<s>>
        ELSE <<SubSeq(s, 1, i - 1)>> \o split(SubSeq(s, i + 1, Len(s)), c)

\* posixpath.join(a, b)
join(a, b) ==
    IF startswith(b, <<sep>>) THEN b
    ELSE IF a = <<>> \/ Last(a) = sep THEN a \o b
    ELSE a \o <<sep>> \o b

\* posixpath.split(p): (head, tail)
path_split(p) ==
    LET i    == rfind(p, sep)
        head == SubSeq(p, 1, i)
        tail == SubSeq(p, i + 1, Len(p))
    IN  IF head # <<>> /\ Range(head) # {sep}
        THEN <<rstrip(head, {sep}), tail>>
        ELSE <<head, tail>>

\* posixpath.splitext(p): (root, ext); leading dots of the last component
\* do not start an extension
splitext(p) ==
    LET sepIndex == rfind(p, sep)
        dotIndex == rfind(p, ".")
    IN  IF dotIndex > sepIndex
           /\ \E k \in (sepIndex + 1)..(dotIndex - 1) : p[k] # "."
        THEN <<SubSeq(p, 1, dotIndex - 1), SubSeq(p, dotIndex, Len(p))>>
        ELSE <<p, <<>>>>

Digits == {"0", "1", "2", "3", "4", "5", "6", "7", "8", "9"}

DigitValue(c) ==
    CASE c = "0" -> 0 [] c = "1" -> 1 [] c = "2" -> 2 [] c = "3" -> 3
      [] c = "4" -> 4 [] c = "5" -> 5 [] c = "6" -> 6 [] c = "7" -> 7
      [] c = "8" -> 8 [] c = "9" -> 9

\* int(s) for a string of decimal digits
RECURSIVE int(_)
int(s) == IF s = <<>> THEN 0 ELSE 10 * int(Front(s)) + DigitValue(Last(s))

\* re.findall("\[(\d{4})\]", s): the groups of the non-overlapping matches,
\* scanning left to right
MatchAt(s, i) ==
    /\ i + 5 <= Len(s)
    /\ s[i] = "["
    /\ \A k \in 1..4 : s[i + k] \in Digits
    /\ s[i + 5] = "]"

RECURSIVE findall_from(_, _)
findall_from(s, i) ==
    IF i > Len(s) THEN <<>>
    ELSE IF MatchAt(s, i)
         THEN <<SubSeq(s, i + 1, i + 4)>> \o findall_from(s, i + 6)
         ELSE findall_from(s, i + 1)

findall(s) == findall_from(s, 1)

\* ------------------------------------------------------------------------
\* Program constants (lines 36-45) and the inputs of a run
\* ------------------------------------------------------------------------

EXTS_MEDIA == <<<<"m", "p", "3">>, <<"m", "4", "a">>>>

EXTS_ART == <<<<"j", "p", "g">>>>

EXTS_LYRICS == <<<<"l", "r", "c">>>>

any == <<"a", "n", "y">>

\* The names of the library's folders and files
ArtistM == <<"m">>
ArtistMM == <<"m", "m">>
ArtistB == <<"b">>
Album85 == <<"A", "[", "1", "9", "8", "5", "]">>
Album7585 == <<"[", "1", "9", "7", "5", "]", "[", "1", "9", "8", "5", "]">>
Album79 == <<"[", "1", "9", "7", "9", "]">>
Album198 == <<"[", "1", "9", "8", "]">>
Disc85 == <<"[", "1", "9", "8", "5", "]">>
DiscD == <<"d">>
XLrc == <<"x", ".", "l", "r", "c">>
XMp3 == <<"x", ".", "m", "p", "3">>
XM4a == <<"x", ".", "m", "4", "a">>
YMp3 == <<"y", ".", "m", "p", "3">>
CoverJpg == <<"c", ".", "j", "p", "g">>

\* Candidate files of the library, each a path of names relative to the
\* library root
FilePool ==
    { <<ArtistM, Album85, XLrc>>,
      <<ArtistM, Album85, XMp3>>,
      <<ArtistMM, Album85, XLrc>>,
      <<ArtistB, Album7585, XLrc>>,
      <<ArtistB, Album7585, XM4a>>,
      <<ArtistB, Album7585, YMp3>>,
      <<ArtistB, Album7585, CoverJpg>>,
      <<ArtistB, Album7585, DiscD, XLrc>>,
      <<ArtistB, Album7585, DiscD, XMp3>>,
      <<ArtistB, Album79, Disc85, CoverJpg>>,
      <<ArtistMM, Album79, XLrc>>,
      <<ArtistB, Album198, XLrc>>,
      <<ArtistB, XLrc>> }

\* Largest number of files in the library
MaxFiles == 2

Libraries == {S \in SUBSET FilePool : Cardinality(S) \in 1..MaxFiles}

\* Library roots (SOURCE_FOLDER), destination root (DEST_FOLDER)
SourceRoots == {<<"/", "m">>, <<"/", "m", "/">>, <<"/">>}

DestRoot == <<"/", "o">>

\* (MIN_YEAR, MAX_YEAR): strings of digits, or "any"
YearRanges ==
    { <<<<"1", "9", "8", "0">>, <<"1", "9", "8", "9">>>>, <<any, any>>, <<<<"1", "9", "8", "5">>, <<"1", "9", "8", "5">>>>,
      <<<<"1", "9", "8", "6">>, any>>, <<any, <<"1", "9", "8", "4">>>> }

\* Lines the user may type at a prompt
InputLines == {"", "y", "YES", "n", "No", "q"}

VARIABLES
    media_path,          \* SOURCE_FOLDER
    dest_folder,         \* DEST_FOLDER
    min_year, max_year,  \* MIN_YEAR, MAX_YEAR
    fs,                  \* the library: the relative paths of its files
    dest_exists,         \* os.path.exists(dest_folder)
    dest_old,            \* the destination still holds its earlier contents
    pc,                  \* position in main()
    base_depth,          \* walk_media_dir: base_depth
    todo,                \* walk_media_dir: directories os.walk has yet to hand over
    files,               \* walk_media_dir: files
    calls,               \* the calls of process_album_dir made so far
    media_file_count,    \* show_copy_stats: media_file_count
    proceed_answer,      \* result of the first query_yes_no
    overwrite_answer,    \* result of the second query_yes_no
    copy_index,          \* copy_files: position in files
    mutations,           \* filesystem mutations performed, in order
    exit_code

vars == <<media_path, dest_folder, min_year, max_year, fs, dest_exists, dest_old,
          pc, base_depth, todo, files, calls, media_file_count,
          proceed_answer, overwrite_answer, copy_index, mutations, exit_code>>

\* ------------------------------------------------------------------------
\* The library on disk
\* ------------------------------------------------------------------------

\* The directories of the library: the library root (the empty relative
\* path) and every folder that holds one of its files
Dirs == UNION { {SubSeq(f, 1, k) : k \in 0..(Len(f) - 1)} : f \in fs }

SubDirs(d) == {e \in Dirs : Len(e) = Len(d) + 1 /\ Front(e) = d}

FilesIn(d) == {f \in fs : Front(f) = d}

\* The path string under which os.walk(media_path) reports a node: each
\* level is os.path.join(root, name)
RECURSIVE abspath(_)
abspath(rel) ==
    IF rel = <<>> THEN media_path ELSE join(abspath(Front(rel)), Last(rel))

\* os.path.exists(path)
exists(path) == \E n \in Dirs \cup fs : abspath(n) = path

\* The directory a path string names
NodeOf(path) == CHOOSE d \in Dirs : abspath(d) = path

\* os.scandir returns the entries of a directory in an order of its own
Orders(S) ==
    {p \in [1..Cardinality(S) -> S] : \A i, j \in 1..Cardinality(S) : p[i] = p[j] => i = j}

\* os.walk(top, topdown=False), as walk_media_dir consumes it (lines 171-173):
\* the directories named by (root, name) in the order of the two loops; a
\* folder's subfolders are walked, in scandir order, before the folder is
\* reported with its dirs
RECURSIVE walk_bottomup(_), walk_bottomup_each(_)
walk_bottomup(top) ==
    UNION { {below \o p : below \in walk_bottomup_each(p)} : p \in Orders(SubDirs(top)) }

walk_bottomup_each(p) ==
    IF p = <<>> THEN {<<>>}
    ELSE {a \o b : a \in walk_bottomup(Head(p)), b \in walk_bottomup_each(Tail(p))}

\* os.walk(album_path), as process_album_dir consumes it (lines 120-121):
\* the (root, f) pairs in the order of the two loops; a folder is reported
\* with its files before its subfolders are walked
RECURSIVE walk_topdown(_), walk_topdown_each(_)
walk_topdown(top) ==
    UNION { {[i \in 1..Len(fo) |-> <<abspath(top), Last(fo[i])>>] \o below :
                below \in walk_topdown_each(p)} :
            fo \in Orders(FilesIn(top)), p \in Orders(SubDirs(top)) }

walk_topdown_each(p) ==
    IF p = <<>> THEN {<<>>}
    ELSE {a \o b : a \in walk_topdown(Head(p)), b \in walk_topdown_each(Tail(p))}

\* ------------------------------------------------------------------------
\* Path Classifier
\* ------------------------------------------------------------------------

get_path_depth(path) == Len(split(strip(path, {sep}), sep))

get_file_ext(path) == strip(splitext(path)[2], {"."})

is_file_type_media(path) == get_file_ext(path) \in Range(EXTS_MEDIA)

\* ------------------------------------------------------------------------
\* Album Selector: process_album_dir
\* ------------------------------------------------------------------------

\* lines 105-106
album_name_of(album_path) == Last(split(album_path, sep))

\* line 111: the matches of the pattern in the album name; the year is the
\* last one, and an empty list raises IndexError
year_matches(album_path) == findall(album_name_of(album_path))

\* The year read from the first match instead of the last
album_year_first(album_path) == int(Head(year_matches(album_path)))

album_year_of(album_path) == int(Last(year_matches(album_path)))

\* The range taken without its two end years
in_year_range_strict(album_year, lo, hi) ==
    /\ (lo = any \/ album_year > int(lo))
    /\ (hi = any \/ album_year < int(hi))

\* lines 117-119
in_year_range(album_year, lo, hi) ==
    /\ (lo = any \/ album_year >= int(lo))
    /\ (hi = any \/ album_year <= int(hi))

\* The siblings added without asking whether they exist
RECURSIVE media_siblings_unchecked(_, _, _)
media_siblings_unchecked(root, basename, exts) ==
    IF exts = <<>> THEN <<>>
    ELSE <<join(root, basename \o <<".">> \o Head(exts))>>
           \o media_siblings_unchecked(root, basename, Tail(exts))

\* lines 127-130: the media siblings of the lyrics file f of folder root
RECURSIVE media_siblings(_, _, _)
media_siblings(root, basename, exts) ==
    IF exts = <<>> THEN <<>>
    ELSE LET mf == join(root, basename \o <<".">> \o Head(exts))
         IN  (IF exists(mf) THEN <<mf>> ELSE <<>>)
               \o media_siblings(root, basename, Tail(exts))

\* Media files selected on their own
file_entries_media_alone(root, f) ==
    LET ext == get_file_ext(f)
    IN  IF ext \in Range(EXTS_LYRICS)
        THEN <<join(root, f)>> \o media_siblings(root, splitext(f)[1], EXTS_MEDIA)
        ELSE IF ext \in Range(EXTS_ART) \cup Range(EXTS_MEDIA)
        THEN <<join(root, f)>>
        ELSE <<>>

\* Art files left out
file_entries_no_art(root, f) ==
    LET ext == get_file_ext(f)
    IN  IF ext \in Range(EXTS_LYRICS)
        THEN <<join(root, f)>> \o media_siblings(root, splitext(f)[1], EXTS_MEDIA)
        ELSE <<>>

\* lines 122-132: what one file f of folder root adds to ret
file_entries(root, f) ==
    LET ext == get_file_ext(f)
    IN  IF ext \in Range(EXTS_LYRICS)
        THEN <<join(root, f)>> \o media_siblings(root, splitext(f)[1], EXTS_MEDIA)
        ELSE IF ext \in Range(EXTS_ART)
        THEN <<join(root, f)>>
        ELSE <<>>

RECURSIVE entries_of(_)
entries_of(w) ==
    IF w = <<>> THEN <<>>
    ELSE file_entries(Head(w)[1], Head(w)[2]) \o entries_of(Tail(w))

\* lines 117-133: the lists process_album_dir may return for an album whose
\* year was parsed (one per order in which os.walk may report the files)
process_album_dir(album_path, lo, hi) ==
    IF in_year_range(album_year_of(album_path), lo, hi)
    THEN {entries_of(w) : w \in walk_topdown(NodeOf(album_path))}
    ELSE {<<>>}

\* ------------------------------------------------------------------------
\* Destination Mapper: copy_file
\* ------------------------------------------------------------------------

\* line 156
rel_file_path(source_dir, source_file_abspath) ==
    strip(strip(source_file_abspath, Range(source_dir)), {sep})

\* line 158
dest_file_abspath(source_dir, dest_dir, source_file_abspath) ==
    join(dest_dir, rel_file_path(source_dir, source_file_abspath))

\* ------------------------------------------------------------------------
\* Confirmation prompt: query_yes_no
\* ------------------------------------------------------------------------

\* input().lower()
lower(line) ==
    CASE line = "YES" -> "yes"
      [] line = "No" -> "no"
      [] OTHER -> line

\* line 58
valid == [c \in {"yes", "y", "ye", "no", "n"} |-> c \in {"yes", "y", "ye"}]

\* lines 70-76, default="yes": whether a typed line ends the loop, and the
\* answer it then returns; any other line has the question asked once more
answers(line) == lower(line) = "" \/ lower(line) \in DOMAIN valid

query_yes_no(line) ==
    LET choice == lower(line)
    IN  IF choice = "" THEN valid["yes"] ELSE valid[choice]

\* ------------------------------------------------------------------------
\* main
\* ------------------------------------------------------------------------

Init ==
    /\ media_path \in SourceRoots
    /\ dest_folder = DestRoot
    /\ \E r \in YearRanges : min_year = r[1] /\ max_year = r[2]
    /\ fs \in Libraries
    /\ dest_exists \in BOOLEAN
    /\ dest_old = dest_exists
    /\ pc = "main"
    /\ base_depth = 0
    /\ todo = <<>>
    /\ files = <<>>
    /\ calls = <<>>
    /\ media_file_count = 0
    /\ proceed_answer = "none"
    /\ overwrite_answer = "none"
    /\ copy_index = 1
    /\ mutations = <<>>
    /\ exit_code = 0

\* The walk carried on after the error is printed
on_year_error_continue == "walk"

\* line 115: where control goes when the album year cannot be parsed
on_year_error == "exit"

\* The copy started without the overwrite question
after_proceed_unasked(answer, dest_there) ==
    IF ~answer THEN "aborted" ELSE "copy"

\* lines 202-216: where control goes after the answer to "Proceed with copy?"
after_proceed(answer, dest_there) ==
    IF ~answer THEN "aborted"
    ELSE IF dest_there THEN "overwrite"
    ELSE "copy"

\* walk_media_dir, lines 169-171: base_depth, and the start of os.walk
StartWalk ==
    /\ pc = "main"
    /\ base_depth' = get_path_depth(media_path)
    /\ todo' \in walk_bottomup(<<>>)
    /\ pc' = "walk"
    /\ UNCHANGED <<media_path, dest_folder, min_year, max_year, fs, dest_exists,
                   dest_old, files, calls, media_file_count, proceed_answer,
                   overwrite_answer, copy_index, mutations, exit_code>>

\* walk_media_dir, lines 172-178: one directory name, with the call of
\* process_album_dir (lines 101-133) when its depth is base_depth + 2
WalkDir ==
    /\ pc = "walk"
    /\ todo # <<>>
    /\ LET node          == Head(todo)
           root          == abspath(Front(node))
           name          == Last(node)
           fullpath      == join(root, name)
           current_depth == get_path_depth(fullpath)
       IN  IF current_depth - base_depth = 2
           THEN IF year_matches(fullpath) = <<>>
                THEN /\ calls' = Append(calls, [album_path |-> fullpath, node |-> node,
                                                parsed |-> FALSE, album_year |-> 0,
                                                ret |-> <<>>])
                     /\ pc' = on_year_error
                     /\ exit_code' = 1
                     /\ files' = files
                ELSE \E ret \in process_album_dir(fullpath, min_year, max_year) :
                        /\ calls' = Append(calls, [album_path |-> fullpath, node |-> node,
                                                   parsed |-> TRUE,
                                                   album_year |-> album_year_of(fullpath),
                                                   ret |-> ret])
                        /\ files' = files \o ret
                        /\ UNCHANGED <<pc, exit_code>>
           ELSE UNCHANGED <<files, calls, pc, exit_code>>
    /\ todo' = Tail(todo)
    /\ UNCHANGED <<media_path, dest_folder, min_year, max_year, fs, dest_exists,
                   dest_old, base_depth, media_file_count, proceed_answer,
                   overwrite_answer, copy_index, mutations>>

\* walk_media_dir, line 179: return files (to main, line 226)
WalkReturn ==
    /\ pc = "walk"
    /\ todo = <<>>
    /\ pc' = "stats"
    /\ UNCHANGED <<media_path, dest_folder, min_year, max_year, fs, dest_exists,
                   dest_old, base_depth, todo, files, calls, media_file_count,
                   proceed_answer, overwrite_answer, copy_index, mutations, exit_code>>

\* show_copy_stats, lines 182-198
ShowCopyStats ==
    /\ pc = "stats"
    /\ media_file_count' = Cardinality({i \in 1..Len(files) : is_file_type_media(files[i])})
    /\ pc' = "proceed"
    /\ UNCHANGED <<media_path, dest_folder, min_year, max_year, fs, dest_exists,
                   dest_old, base_depth, todo, files, calls, proceed_answer,
                   overwrite_answer, copy_index, mutations, exit_code>>

\* show_copy_proceed_menu, lines 202-206: one line typed at "Proceed with copy?"
QueryProceed ==
    /\ pc = "proceed"
    /\ \E line \in InputLines :
          IF ~answers(line)
          THEN UNCHANGED <<pc, proceed_answer>>
          ELSE LET answer == query_yes_no(line)
               IN  /\ proceed_answer' = IF answer THEN "yes" ELSE "no"
                   /\ pc' = after_proceed(answer, dest_exists)
    /\ UNCHANGED <<media_path, dest_folder, min_year, max_year, fs, dest_exists,
                   dest_old, base_depth, todo, files, calls, media_file_count,
                   overwrite_answer, copy_index, mutations, exit_code>>

\* show_copy_proceed_menu, lines 207-216: one line typed at the overwrite
\* question; on yes the destination is erased and created anew
QueryOverwrite ==
    /\ pc = "overwrite"
    /\ \E line \in InputLines :
          IF ~answers(line)
          THEN UNCHANGED <<pc, overwrite_answer, mutations, dest_old, dest_exists>>
          ELSE IF ~query_yes_no(line)
          THEN /\ overwrite_answer' = "no"
               /\ pc' = "aborted"
               /\ UNCHANGED <<mutations, dest_old, dest_exists>>
          ELSE     /\ overwrite_answer' = "yes"
                   /\ mutations' = mutations \o <<[op |-> "rmtree", src |-> <<>>, dst |-> dest_folder],
                                                  [op |-> "mkdir", src |-> <<>>, dst |-> dest_folder]>>
                   /\ dest_old' = FALSE
                   /\ dest_exists' = TRUE
                   /\ pc' = "copy"
    /\ UNCHANGED <<media_path, dest_folder, min_year, max_year, fs, base_depth, todo,
                   files, calls, media_file_count, proceed_answer, copy_index, exit_code>>

\* copy_files, lines 220-221: copy_file (lines 154-165) on the next file
CopyFile ==
    /\ pc = "copy"
    /\ copy_index <= Len(files)
    /\ LET f == files[copy_index]
       IN  IF ~startswith(f, media_path)
           THEN /\ pc' = "crash"
                /\ exit_code' = 1
                /\ UNCHANGED <<mutations, dest_exists, copy_index>>
           ELSE LET dst == dest_file_abspath(media_path, dest_folder, f)
                IN  /\ mutations' = mutations \o
                                      <<[op |-> "makedirs", src |-> <<>>, dst |-> path_split(dst)[1]],
                                        [op |-> "copy", src |-> f, dst |-> dst]>>
                    /\ dest_exists' = TRUE
                    /\ copy_index' = copy_index + 1
                    /\ UNCHANGED <<pc, exit_code>>
    /\ UNCHANGED <<media_path, dest_folder, min_year, max_year, fs, dest_old, base_depth,
                   todo, files, calls, media_file_count, proceed_answer, overwrite_answer>>

\* copy_files, line 222, and the end of main
CopyFilesDone ==
    /\ pc = "copy"
    /\ copy_index > Len(files)
    /\ pc' = "done"
    /\ UNCHANGED <<media_path, dest_folder, min_year, max_year, fs, dest_exists,
                   dest_old, base_depth, todo, files, calls, media_file_count,
                   proceed_answer, overwrite_answer, copy_index, mutations, exit_code>>

Next ==
    \/ StartWalk
    \/ WalkDir
    \/ WalkReturn
    \/ ShowCopyStats
    \/ QueryProceed
    \/ QueryOverwrite
    \/ CopyFile
    \/ CopyFilesDone

Spec == Init /\ [][Next]_vars

\* ------------------------------------------------------------------------
\* What the library holds, read off the tree itself
\* ------------------------------------------------------------------------

EndsWith(s, t) == Len(t) <= Len(s) /\ SubSeq(s, Len(s) - Len(t) + 1, Len(s)) = t

IsLyricsName(n) == Len(n) > 4 /\ EndsWith(n, <<".", "l", "r", "c">>)

IsArtName(n) == Len(n) > 4 /\ EndsWith(n, <<".", "j", "p", "g">>)

IsMediaName(n) ==
    Len(n) > 4 /\ (EndsWith(n, <<".", "m", "p", "3">>) \/ EndsWith(n, <<".", "m", "4", "a">>))

\* The name with its three-letter extension replaced
WithExt(n, ext) == SubSeq(n, 1, Len(n) - 3) \o ext

\* File f lies in the subtree of directory d
Under(f, d) == Len(f) > Len(d) /\ SubSeq(f, 1, Len(d)) = d

\* The positions of a folder name at which a 4-digit token in square
\* brackets starts
TokenStarts(n) ==
    {i \in 1..Len(n) : /\ i + 5 <= Len(n)
                       /\ n[i] = "[" /\ n[i + 5] = "]"
                       /\ \A k \in (i + 1)..(i + 4) : n[k] \in Digits}

HasToken(n) == TokenStarts(n) # {}

Decimal4(n, i) ==
    1000 * DigitValue(n[i]) + 100 * DigitValue(n[i + 1])
      + 10 * DigitValue(n[i + 2]) + DigitValue(n[i + 3])

\* The year a folder name carries: its last bracketed 4-digit token
LastTokenYear(n) ==
    LET i == CHOOSE k \in TokenStarts(n) : \A j \in TokenStarts(n) : j <= k
    IN  Decimal4(n, i + 1)

\* The album of directory d is within the year range of the run
Passes(d) ==
    LET y == LastTokenYear(Last(d))
    IN  /\ (min_year = any \/ y >= Decimal4(min_year, 1))
        /\ (max_year = any \/ y <= Decimal4(max_year, 1))

Calls == {calls[i] : i \in 1..Len(calls)}

Ops == {mutations[i].op : i \in 1..Len(mutations)}

\* walk_media_dir has returned its list to main
Walked == pc \in {"stats", "proceed", "overwrite", "copy", "done", "aborted", "crash"}

\* ------------------------------------------------------------------------
\* Claims
\* ------------------------------------------------------------------------

RECURSIVE DropLeadingSeps(_)
DropLeadingSeps(s) ==
    IF s # <<>> /\ Head(s) = sep THEN DropLeadingSeps(Tail(s)) ELSE s

Remainder(sourceRoot, source) ==
    DropLeadingSeps(SubSeq(source, Len(sourceRoot) + 1, Len(source)))

\* C1: every copy goes to destRoot joined with exactly the remainder of the
\* source path after the sourceRoot prefix and any leading separators.
C1_DestinationIsRemainderUnderDestRoot ==
    \A i \in 1..Len(mutations) :
        mutations[i].op = "copy" =>
            mutations[i].dst =
                dest_folder \o <<sep>> \o Remainder(media_path, mutations[i].src)

\* C2: the selection never holds a media file (.mp3, .m4a) unless a lyrics
\* file of the same stem exists in the same directory.
C2_MediaOnlyWithLyrics ==
    \A i \in 1..Len(files) :
        IsMediaName(files[i]) =>
            \E f \in fs : abspath(f) = WithExt(files[i], <<"l", "r", "c">>)

C2_Witness ==
    /\ Walked
    /\ files # <<>>
    /\ \E c \in Calls, f \in fs :
          /\ Under(f, c.node) /\ c.parsed /\ Passes(c.node)
          /\ IsMediaName(Last(f))
          /\ Front(f) \o <<WithExt(Last(f), <<"l", "r", "c">>)>> \notin fs
          /\ \A i \in 1..Len(files) : files[i] # abspath(f)

MediaSiblings(f) ==
    {Front(f) \o <<WithExt(Last(f), e)>> : e \in {<<"m", "p", "3">>, <<"m", "4", "a">>}}

OnAccountOf(ret, f) ==
    {e \in Range(ret) : /\ Len(e) = Len(abspath(f))
                        /\ WithExt(e, <<>>) = WithExt(abspath(f), <<>>)
                        /\ ~IsArtName(e)}

\* C3: for an album within the year range, every lyrics file X.lrc of its
\* subtree is selected; sameDirectory/X.<ext> is selected, for each media
\* extension, exactly when that file exists; without such a sibling X.lrc
\* is the only entry selected on account of X.
C3_LyricsAndExistingSiblings ==
    \A c \in Calls :
        (c.parsed /\ Passes(c.node)) =>
            \A f \in fs :
                (Under(f, c.node) /\ IsLyricsName(Last(f))) =>
                    /\ abspath(f) \in Range(c.ret)
                    /\ \A m \in MediaSiblings(f) :
                          abspath(m) \in Range(c.ret) <=> m \in fs
                    /\ (MediaSiblings(f) \cap fs = {}) =>
                          OnAccountOf(c.ret, f) = {abspath(f)}

C3_Witness ==
    \E c \in Calls, f \in fs :
        /\ c.parsed /\ Passes(c.node)
        /\ Under(f, c.node) /\ IsLyricsName(Last(f))
        /\ Cardinality(MediaSiblings(f) \cap fs) = 1
        /\ Len(c.ret) = 2

\* C4: when the album folder's name (the last segment of its path) holds
\* bracketed 4-digit tokens, the album year is the integer of the last one.
C4_YearIsLastToken ==
    \A c \in Calls :
        HasToken(Last(c.node)) =>
            c.parsed /\ c.album_year = LastTokenYear(Last(c.node))

C4_Witness ==
    \E c \in Calls :
        /\ Cardinality(TokenStarts(Last(c.node))) = 2
        /\ c.album_year = 1985
        /\ Decimal4(Last(c.node), 2) = 1975

Selectable(d) ==
    {f \in fs : Under(f, d) /\ (IsLyricsName(Last(f)) \/ IsArtName(Last(f)))}

\* C5: an album passes exactly when (min is "any" or year >= min) and (max
\* is "any" or year <= max), bounds included; an album outside the range
\* gives an empty selection for its folder and no error.
C5_YearRangeInclusive ==
    \A i \in 1..Len(calls) :
        LET c == calls[i]
        IN  c.parsed =>
              /\ Passes(c.node) => \A f \in Selectable(c.node) : abspath(f) \in Range(c.ret)
              /\ ~Passes(c.node) =>
                    /\ c.ret = <<>>
                    /\ (i = Len(calls) => pc # "exit" /\ exit_code = 0)

C5_Witness ==
    \E c \in Calls :
        /\ c.parsed /\ c.ret # <<>>
        /\ min_year # any /\ max_year # any
        /\ c.album_year = Decimal4(min_year, 1)
        /\ c.album_year = Decimal4(max_year, 1)

\* C6: once a folder treated as an album has a name without a bracketed
\* 4-digit token, the run has ended with exit code 1 at that folder: it is
\* the last folder processed, no selection is returned, no prompt is
\* answered and nothing is deleted or copied.
C6_UnparsableYearAborts ==
    \A i \in 1..Len(calls) :
        ~HasToken(Last(calls[i].node)) =>
            /\ i = Len(calls)
            /\ pc = "exit" /\ exit_code = 1
            /\ ~Walked
            /\ proceed_answer = "none" /\ overwrite_answer = "none"
            /\ mutations = <<>>

C6_Witness ==
    /\ pc = "exit"
    /\ \E c \in Calls : ~HasToken(Last(c.node))
    /\ \E k \in 1..Len(todo) : get_path_depth(abspath(todo[k])) - base_depth = 2

\* C7: a directory is passed to the Album Selector exactly when it lies two
\* path segments below the library root, and each such directory once.
C7_AlbumFoldersAreTwoBelowRoot ==
    /\ \A c \in Calls : Len(c.node) = 2
    /\ \A i, j \in 1..Len(calls) : calls[i].node = calls[j].node => i = j
    /\ Walked => \A d \in Dirs : Len(d) = 2 => \E c \in Calls : c.node = d

\* C8: nothing is deleted, created or copied unless "Proceed with copy?" was
\* answered yes and, when the destination exists, the overwrite question
\* too; the overwrite question is asked only when the destination exists, the
\* destination is erased only after its yes, and a no at either prompt ends
\* the run with nothing changed.
C8_NoMutationWithoutConfirmation ==
    /\ mutations # <<>> => proceed_answer = "yes" /\ ~dest_old
    /\ "rmtree" \in Ops => overwrite_answer = "yes" /\ mutations[1].op = "rmtree"
    /\ ~dest_old /\ "rmtree" \notin Ops => overwrite_answer = "none"
    /\ overwrite_answer # "none" => proceed_answer = "yes"
    /\ (proceed_answer = "no" \/ overwrite_answer = "no") =>
          pc = "aborted" /\ mutations = <<>> /\ exit_code = 0

C8_Witness ==
    /\ pc = "done"
    /\ overwrite_answer = "yes"
    /\ {"rmtree", "copy"} \subseteq Ops

\* C9: in an album within the year range every art file (.jpg) of the
\* subtree is selected, lyrics or no lyrics; in an album outside it no art
\* file is selected.
C9_ArtFollowsYearFilter ==
    \A c \in Calls :
        c.parsed =>
            /\ Passes(c.node) =>
                  \A f \in fs : (Under(f, c.node) /\ IsArtName(Last(f))) =>
                                    abspath(f) \in Range(c.ret)
            /\ ~Passes(c.node) => \A e \in Range(c.ret) : ~IsArtName(e)

C9_Witness ==
    \E c \in Calls :
        /\ c.parsed /\ Passes(c.node)
        /\ \A f \in fs : ~IsLyricsName(Last(f))
        /\ \E f \in fs : Under(f, c.node) /\ IsArtName(Last(f)) /\ c.ret = <<abspath(f)>>

\* C10: two distinct paths of the selection are never given the same
\* destination path.
C10_DestinationsDistinct ==
    Walked =>
        \A i, j \in 1..Len(files) :
            files[i] # files[j] =>
                dest_file_abspath(media_path, dest_folder, files[i])
                    # dest_file_abspath(media_path, dest_folder, files[j])

====
